---------------------------- MODULE Spec2Model ----------------------------
(***************************************************************************)
(* Model of the detection-record pipeline of ch3/scripts:                  *)
(*   export_detections.py  (label lines -> pixel boxes -> JSON records)    *)
(*   refine_detections.py  (confidence / class filter over the records)    *)
(*   detection_summary.py  (per-class summary table)                       *)
(*                                                                         *)
(* Numbers.  Normalised coordinates and confidences are binary fractions   *)
(* with denominator 4 ("quarters"), which Python floats hold exactly, so   *)
(* the float arithmetic of the scripts is exact on them and is modelled by *)
(* integer arithmetic on numerators.  Pixel coordinates before rounding    *)
(* are held in eighths of a pixel.  A float is a record [k, v]: k = "num"  *)
(* with numerator v, or k = "inf" / "ninf" / "nan" (v = 0).                *)
(***************************************************************************)
EXTENDS Integers, Sequences, FiniteSets, TLC

VARIABLES
    \* ---- coordinate conversion (parse_label_line + convert_to_pixels)
    cv_pc,        \* "line" | "parsed" | "rejected" | "converted"
    cv_line,      \* the tokens of the label line
    cv_shape,     \* <<height, width>> of the image
    cv_parsed,    \* result of parse_label_line
    cv_box,       \* result of convert_to_pixels
    \* ---- export_detections.main
    ex_pc,        \* "start" | "loop" | "done" | "fatal" | "raised"
    ex_missing,   \* which of "runs", "labels", "classes" the run found missing
    ex_outside,   \* the labels directory lies outside the runs directory
    ex_table,     \* args.class_names: <<"none">>, <<"missing">> or the file's lines
    ex_names,     \* class_names: NoNames or the list of names
    ex_relative,  \* args.relative_paths
    ex_files,     \* list(iter_label_files(labels_dir))
    ex_i,         \* number of label files the loop has finished with
    ex_seen,      \* what the loop read for each of them
    ex_records,   \* records
    ex_output,    \* args.output: whether it was written, and the records in it
    ex_status,    \* exit status: -1 while running or when an exception escaped
    \* ---- refine_detections.refine_records
    rf_pc,        \* "loop" | "done" | "reapplied"
    rf_args,      \* min_conf, allowed_ids, allowed_names, drop_empty, sort_desc
    rf_dicts,     \* the record dicts that exist, by identity (position)
    rf_lists,     \* the detection lists that exist, by identity (position)
    rf_records,   \* records: the identities of the input dicts, in order
    rf_given,     \* the content of the input when refine_records was called
    rf_i,         \* number of input records the loop has finished with
    rf_filtered,  \* the value of the local `filtered` in each of them
    rf_refined,   \* refined: the identities of the output dicts, in order
    rf_again,     \* what refine_records returns when called on its own output
    \* ---- detection_summary (build_dataframe, summarise)
    sm_pc,        \* "records" | "frame" | "done"
    sm_records,   \* the records read from the input JSON
    sm_sort_by,   \* args.sort_by
    sm_df,        \* the rows of the data frame
    sm_summary,   \* the rows of the summary
    \* ---- export_detections.find_image_for_label
    fi_pc,        \* "search" | "found"
    fi_base,      \* what base_dir is: "root" (runs_dir), "inside" or "outside"
    fi_root,      \* extensions e for which runs_dir / (stem + e) is a file
    fi_beside,    \* extensions e for which base_dir / (stem + e) is a file
    fi_deep,      \* extensions e for which stem + e is a file further below runs_dir
    fi_found,     \* the path returned, or the error raised
    \* ---- refine_detections.parse_class_filter
    cf_pc,        \* "raw" | "parsed"
    cf_raw,       \* the pieces of the specification between its commas
    cf_ids,       \* ids
    cf_names      \* names

cvars == <<cv_pc, cv_line, cv_shape, cv_parsed, cv_box>>
evars == <<ex_pc, ex_missing, ex_outside, ex_table, ex_names, ex_relative,
           ex_files, ex_i, ex_seen, ex_records, ex_output, ex_status>>
rvars == <<rf_pc, rf_args, rf_dicts, rf_lists, rf_records, rf_given, rf_i,
           rf_filtered, rf_refined, rf_again>>
svars == <<sm_pc, sm_records, sm_sort_by, sm_df, sm_summary>>
fvars == <<fi_pc, fi_base, fi_root, fi_beside, fi_deep, fi_found>>
pvars == <<cf_pc, cf_raw, cf_ids, cf_names>>
vars == <<cvars, evars, rvars, svars, fvars, pvars>>

None == [k |-> "None", v |-> 0]
NoNames == <<"<no table>">>
NullName == "<null>"
NoOutput == [written |-> FALSE, records |-> <<>>]
Written(records) == [written |-> TRUE, records |-> records]
PInt(n) == [k |-> "int", v |-> n]
NoImage == [err |-> "none", dir |-> "", ext |-> 0]
NoArgs == [min_conf |-> [k |-> "num", v |-> 0], allowed_ids |-> {},
           allowed_names |-> {}, drop_empty |-> FALSE, sort_desc |-> FALSE]

------------------------------------------------------------------------------
(* Bounds of the model *)

\* largest image side, in pixels
MaxDim == 3
\* numeric coordinate tokens range over -NegQ .. PosQ quarters
NegQ == 2
PosQ == 5
\* most label files under the labels directory
MaxFiles == 2
\* most lines in a label file
MaxLines == 2
\* most records in the refiner's input, and most detections in a record
MaxRecs == 2
MaxDets == 2
\* thresholds range over 0 .. MaxConf quarters
MaxConf == 3

------------------------------------------------------------------------------
(* Floats *)

Num(v) == [k |-> "num", v |-> v]
Inf == [k |-> "inf", v |-> 0]
NInf == [k |-> "ninf", v |-> 0]
NaN == [k |-> "nan", v |-> 0]

\* a < b on floats; every comparison with nan is false
FLt(a, b) ==
    IF a.k = "nan" \/ b.k = "nan" THEN FALSE
    ELSE IF a.k = "num" /\ b.k = "num" THEN a.v < b.v
    ELSE IF a.k = b.k THEN FALSE
    ELSE a.k = "ninf" \/ b.k = "inf"

FNeg(a) ==
    CASE a.k = "num" -> Num(0 - a.v)
      [] a.k = "inf" -> NInf
      [] a.k = "ninf" -> Inf
      [] OTHER -> NaN

FAdd(a, b) ==
    IF a.k = "nan" \/ b.k = "nan" THEN NaN
    ELSE IF a.k = "num" /\ b.k = "num" THEN Num(a.v + b.v)
    ELSE IF a.k = "num" THEN b
    ELSE IF b.k = "num" THEN a
    ELSE IF a.k = b.k THEN a
    ELSE NaN

FSub(a, b) == FAdd(a, FNeg(b))

\* a * n for an integer n > 0
FScale(a, n) == IF a.k = "num" THEN Num(a.v * n) ELSE a

\* Python's two-argument min and max: the first argument wins unless the
\* second is strictly smaller (larger)
PyMin(a, b) == IF FLt(b, a) THEN b ELSE a
PyMax(a, b) == IF FLt(a, b) THEN b ELSE a

\* int(x) of a float in quarters: truncation toward zero
IntTrunc(q) == IF q >= 0 THEN q \div 4 ELSE 0 - ((0 - q) \div 4)

------------------------------------------------------------------------------
(* Label lines *)

\* A token of line.strip().split(): a numeric literal (value in quarters),
\* the literal "inf", the literal "nan", or a word float() rejects.
TNum(q) == [k |-> "num", v |-> q]
TInf == [k |-> "inf", v |-> 0]
TNaN == [k |-> "nan", v |-> 0]
TWord == [k |-> "word", v |-> 0]

\* float(token): the value, or ValueError for a word
PyFloat(tok) ==
    IF tok.k = "word" THEN [err |-> "ValueError", val |-> NaN]
    ELSE [err |-> "", val |-> [k |-> tok.k, v |-> tok.v]]

\* int(float(token)): ValueError for a word and for nan, OverflowError for inf
PyIntOfFloat(tok) ==
    CASE tok.k = "word" -> [err |-> "ValueError", val |-> 0]
      [] tok.k = "nan" -> [err |-> "ValueError", val |-> 0]
      [] tok.k = "inf" -> [err |-> "OverflowError", val |-> 0]
      [] OTHER -> [err |-> "", val |-> IntTrunc(tok.v)]

ParseFail(e) ==
    [err |-> e, class_id |-> 0, cx |-> NaN, cy |-> NaN, w |-> NaN, h |-> NaN,
     confidence |-> None]

FirstErr(errs) ==
    IF \E i \in 1..Len(errs) : errs[i] # ""
    THEN errs[CHOOSE i \in 1..Len(errs) :
                 errs[i] # "" /\ \A j \in 1..(i - 1) : errs[j] = ""]
    ELSE ""

parse_label_line(parts) ==
    IF Len(parts) < 5 THEN ParseFail("ValueError")
    ELSE LET cid == PyIntOfFloat(parts[1])
             fcx == PyFloat(parts[2])
             fcy == PyFloat(parts[3])
             fw == PyFloat(parts[4])
             fh == PyFloat(parts[5])
             fc == IF Len(parts) > 5 THEN PyFloat(parts[6])
                   ELSE [err |-> "", val |-> None]
             e == FirstErr(<<cid.err, fcx.err, fcy.err, fw.err, fh.err, fc.err>>)
         IN IF e # "" THEN ParseFail(e)
            ELSE [err |-> "", class_id |-> cid.val, cx |-> fcx.val,
                  cy |-> fcy.val, w |-> fw.val, h |-> fh.val,
                  confidence |-> fc.val]

------------------------------------------------------------------------------
(* Coordinate conversion *)

clamp(value, min_value, max_value) == PyMax(min_value, PyMin(value, max_value))

\* round() of a float held in eighths: nearest integer, ties to the even one
PyRound(e) ==
    LET f == e \div 8
        r == e % 8
    IN IF r < 4 THEN f
       ELSE IF r > 4 THEN f + 1
       ELSE IF f % 2 = 0 THEN f ELSE f + 1

\* int(round(x)): OverflowError for an infinity, ValueError for nan
IntRound(x) ==
    CASE x.k = "num" -> [err |-> "", val |-> PyRound(x.v)]
      [] x.k = "nan" -> [err |-> "ValueError", val |-> 0]
      [] OTHER -> [err |-> "OverflowError", val |-> 0]

\* cx, cy, w, h are floats in quarters; the intermediate values are in eighths
convert_to_pixels(cx, cy, w, h, width, height) ==
    LET x_center == FScale(cx, 2 * width)
        y_center == FScale(cy, 2 * height)
        half_w == FScale(w, width)
        half_h == FScale(h, height)
        x1 == clamp(FSub(x_center, half_w), Num(0), Num(8 * width))
        y1 == clamp(FSub(y_center, half_h), Num(0), Num(8 * height))
        x2 == clamp(FAdd(x_center, half_w), Num(0), Num(8 * width))
        y2 == clamp(FAdd(y_center, half_h), Num(0), Num(8 * height))
        r == <<IntRound(x1), IntRound(y1), IntRound(x2), IntRound(y2)>>
        e == FirstErr(<<r[1].err, r[2].err, r[3].err, r[4].err>>)
    IN [err |-> e, x1 |-> r[1].val, y1 |-> r[2].val,
        x2 |-> r[3].val, y2 |-> r[4].val]

NoBox == [err |-> "none", x1 |-> 0, y1 |-> 0, x2 |-> 0, y2 |-> 0]

CoordTokens == {TNum(q) : q \in (0 - NegQ)..PosQ} \cup {TInf, TNaN, TWord}
Shapes == (1..MaxDim) \X (1..MaxDim)

\* first tokens (0, 1, 1.75, -1, inf, nan, a word) and the tokens after them
\* (too few, four, four and a confidence, some of them not numbers)
ClassTokens == {TNum(0), TNum(4), TNum(7), TNum(-4), TInf, TNaN, TWord}
LineTails == {<<>>, <<TNum(2), TNum(2), TNum(2)>>,
              <<TNum(2), TNum(2), TNum(2), TNum(2)>>,
              <<TNum(2), TNum(2), TNum(2), TNum(2), TNum(3)>>,
              <<TNum(2), TNum(2), TNum(2), TNum(2), TWord>>,
              <<TNum(2), TWord, TNum(2), TNum(2)>>,
              <<TNaN, TNum(2), TInf, TNum(2)>>}

InitConvert ==
    /\ cv_pc = "line"
    /\ cv_line \in {<<TNum(0), a, b, c, d>> : a, b, c, d \in CoordTokens}
                  \cup {<<c>> \o rest : c \in ClassTokens, rest \in LineTails}
    /\ cv_shape \in Shapes
    /\ cv_parsed = ParseFail("none")
    /\ cv_box = NoBox
    \* the other scripts are not running
    /\ ex_pc = "idle"
    /\ ex_missing = {}
    /\ ex_outside = FALSE
    /\ ex_table = <<"none">>
    /\ ex_names = NoNames
    /\ ex_relative = FALSE
    /\ ex_files = <<>>
    /\ ex_i = 0
    /\ ex_seen = <<>>
    /\ ex_records = <<>>
    /\ ex_output = NoOutput
    /\ ex_status = -1
    /\ rf_pc = "idle"
    /\ rf_args = NoArgs
    /\ rf_dicts = <<>>
    /\ rf_lists = <<>>
    /\ rf_records = <<>>
    /\ rf_given = <<>>
    /\ rf_i = 0
    /\ rf_filtered = <<>>
    /\ rf_refined = <<>>
    /\ rf_again = <<>>
    /\ sm_pc = "idle"
    /\ sm_records = <<>>
    /\ sm_sort_by = "num_detections"
    /\ sm_df = <<>>
    /\ sm_summary = <<>>
    /\ fi_pc = "idle"
    /\ fi_base = "root"
    /\ fi_root = {}
    /\ fi_beside = {}
    /\ fi_deep = {}
    /\ fi_found = NoImage
    /\ cf_pc = "idle"
    /\ cf_raw = <<>>
    /\ cf_ids = {}
    /\ cf_names = {}

ParseLine ==
    /\ cv_pc = "line"
    /\ cv_parsed' = parse_label_line(cv_line)
    /\ cv_pc' = IF cv_parsed'.err = "" THEN "parsed" ELSE "rejected"
    /\ UNCHANGED <<cv_line, cv_shape, cv_box>>

ConvertLine ==
    /\ cv_pc = "parsed"
    /\ cv_box' = convert_to_pixels(cv_parsed.cx, cv_parsed.cy, cv_parsed.w,
                                   cv_parsed.h, cv_shape[2], cv_shape[1])
    /\ cv_pc' = "converted"
    /\ UNCHANGED <<cv_line, cv_shape, cv_parsed>>

------------------------------------------------------------------------------
(* Exporter: export_detections.py *)


\* load_class_names(path).  path is "none" (no --class-names), "missing"
\* (not a file) or the lines of the file; a name is the stripped line.
load_class_names_NoRaise(path) ==
    IF path = <<"none">> \/ path = <<"missing">> THEN [err |-> "", names |-> NoNames]
    ELSE LET names == SelectSeq(path, LAMBDA line : line # "")
         IN [err |-> "", names |-> IF names = <<>> THEN NoNames ELSE names]

load_class_names(path) ==
    IF path = <<"none">> THEN [err |-> "", names |-> NoNames]
    ELSE IF path = <<"missing">> THEN [err |-> "FileNotFoundError", names |-> NoNames]
    ELSE LET names == SelectSeq(path, LAMBDA line : line # "")
         IN [err |-> "", names |-> IF names = <<>> THEN NoNames ELSE names]

\* resolve_labels_dir(runs_dir, override).  override is "none", "missing"
\* (not a directory), "inside" or "outside" (a directory under / not under
\* runs_dir); tree says where runs_dir holds a directory named labels:
\* "direct" (runs_dir/labels), "nested" (deeper only) or "absent".
resolve_labels_dir(tree, override) ==
    IF override # "none"
    THEN IF override = "missing" THEN [err |-> "FileNotFoundError", dir |-> ""]
         ELSE [err |-> "", dir |-> override]
    ELSE IF tree = "direct" THEN [err |-> "", dir |-> "inside"]
    ELSE IF tree = "nested" THEN [err |-> "", dir |-> "inside"]
    ELSE [err |-> "FileNotFoundError", dir |-> ""]

\* IMAGE_EXTENSIONS, by position in the tuple; the model keeps the first
\* NumExts of the seven
NumExts == 3
IMAGE_EXTENSIONS == 1..NumExts

\* find_image_for_label(runs_dir, label_path).  base says what base_dir is:
\* "root" (runs_dir itself), "inside" or "outside" (another directory, under
\* or not under runs_dir); root / beside / deep are the extensions with which
\* an image of the stem exists directly under runs_dir, directly under
\* base_dir, and further below runs_dir.  The two directories are iterated as a Python
\* set, whose order is not fixed, so the result is a set of outcomes.
find_image_for_label(base, root, beside, deep) ==
    LET dirs == IF base = "root" THEN {"root"} ELSE {"root", base}
        files(d) == IF d = "root" THEN root ELSE beside
        orders == {o \in [1..Cardinality(dirs) -> dirs] :
                       \A a, b \in DOMAIN o : a # b => o[a] # o[b]}
        FirstExt(exts) == CHOOSE e \in exts : \A f \in exts : e <= f
        \* runs_dir.rglob(stem + ext): every directory at or below runs_dir
        rglob(e) == (IF e \in root THEN {"root"} ELSE {})
                    \cup (IF base = "inside" /\ e \in beside THEN {"inside"} ELSE {})
                    \cup (IF e \in deep THEN {"deep"} ELSE {})
        matched == {e \in IMAGE_EXTENSIONS : rglob(e) # {}}
        fallback == IF matched = {}
                    THEN {[err |-> "FileNotFoundError", dir |-> "", ext |-> 0]}
                    ELSE {[err |-> "", dir |-> d, ext |-> FirstExt(matched)] :
                             d \in rglob(FirstExt(matched))}
        first(o) == IF \E n \in DOMAIN o : files(o[n]) # {}
                    THEN LET n == CHOOSE n \in DOMAIN o :
                                     /\ files(o[n]) # {}
                                     /\ \A m \in DOMAIN o : m < n => files(o[m]) = {}
                         IN {[err |-> "", dir |-> o[n], ext |-> FirstExt(files(o[n]))]}
                    ELSE fallback
    IN UNION {first(o) : o \in orders}

\* iter_label_files: sorted(rglob("*.txt")); files are named by their rank
RECURSIVE Insert(_, _)
Insert(sorted, x) ==
    IF sorted = <<>> THEN <<x>>
    ELSE IF x < Head(sorted) THEN <<x>> \o sorted
    ELSE <<Head(sorted)>> \o Insert(Tail(sorted), x)

RECURSIVE SortAsc(_)
SortAsc(xs) == IF xs = <<>> THEN <<>> ELSE Insert(SortAsc(Tail(xs)), Head(xs))

iter_label_files(listing) == SortAsc(listing)

build_detection(class_id, class_names, confidence, cx, cy, w, h, width, height) ==
    LET class_name == IF class_names # NoNames /\ 0 <= class_id
                         /\ class_id < Len(class_names)
                      THEN class_names[class_id + 1]
                      ELSE NullName
        bbox_pixels == convert_to_pixels(cx, cy, w, h, width, height)
    IN [err |-> bbox_pixels.err,
        det |-> [class_id |-> PInt(class_id), class_name |-> class_name,
                 confidence |-> confidence,
                 bbox |-> <<bbox_pixels.x1, bbox_pixels.y1,
                            bbox_pixels.x2, bbox_pixels.y2>>,
                 bbox_norm |-> <<cx, cy, w, h>>]]

\* The inner loop of main over the lines of one label file (each line its
\* tokens; a blank line has none).  ValueError skips the line, any other
\* exception escapes.
RECURSIVE read_lines(_, _, _, _)
read_lines(lines, class_names, width, height) ==
    IF lines = <<>> THEN [err |-> "", dets |-> <<>>]
    ELSE LET raw_line == Head(lines)
             rest == read_lines(Tail(lines), class_names, width, height)
         IN IF raw_line = <<>> THEN rest
            ELSE LET p == parse_label_line(raw_line)
                     b == build_detection(p.class_id, class_names, p.confidence,
                                          p.cx, p.cy, p.w, p.h, width, height)
                     e == IF p.err # "" THEN p.err ELSE b.err
                 IN IF e = "ValueError" THEN rest
                    ELSE IF e # "" THEN [err |-> e, dets |-> <<>>]
                    ELSE [err |-> rest.err,
                          dets |-> IF rest.err = "" THEN <<b.det>> \o rest.dets
                                   ELSE <<>>]

\* image_path.relative_to(runs_dir): ValueError unless the image is under it
relative_to(where) ==
    IF where = "outside" THEN [err |-> "ValueError", path |-> <<where, "relative">>]
    ELSE [err |-> "", path |-> <<where, "relative">>]

LineGood == <<TNum(0), TNum(2), TNum(2), TNum(2), TNum(2)>>
LineConf == <<TNum(4), TNum(1), TNum(2), TNum(2), TNum(4), TNum(3)>>
LineWord == <<TNum(0), TWord, TNum(2), TNum(2), TNum(2)>>
LineInf == <<TInf, TNum(2), TNum(2), TNum(2), TNum(2)>>
LinePool == {<<>>, LineGood, LineConf, LineWord, LineInf}

RECURSIVE SeqsUpTo(_, _)
SeqsUpTo(S, n) ==
    IF n = 0 THEN {<<>>}
    ELSE LET shorter == SeqsUpTo(S, n - 1)
         IN shorter \cup {Append(q, x) : q \in shorter, x \in S}

FileContents == SeqsUpTo(LinePool, MaxLines)
ClassFiles == {<<"none">>, <<"missing">>, <<"cat", "", "dog">>}
ExportShapes == {<<1, MaxDim>>}
Listings == {l \in SeqsUpTo(1..MaxFiles, MaxFiles) :
                \A a \in 1..Len(l) : l[a] <= Len(l) /\ \A b \in 1..Len(l) : a # b => l[a] # l[b]}

InitExport ==
    /\ ex_pc = "start"
    /\ ex_missing = {}
    /\ ex_outside = FALSE
    /\ ex_table = <<"none">>
    /\ ex_names = NoNames
    /\ ex_relative = FALSE
    /\ ex_files = <<>>
    /\ ex_i = 0
    /\ ex_seen = <<>>
    /\ ex_records = <<>>
    /\ ex_output = NoOutput
    /\ ex_status = -1
    \* the other scripts are not running
    /\ cv_pc = "idle"
    /\ cv_line = <<>>
    /\ cv_shape = <<1, 1>>
    /\ cv_parsed = ParseFail("none")
    /\ cv_box = NoBox
    /\ rf_pc = "idle"
    /\ rf_args = NoArgs
    /\ rf_dicts = <<>>
    /\ rf_lists = <<>>
    /\ rf_records = <<>>
    /\ rf_given = <<>>
    /\ rf_i = 0
    /\ rf_filtered = <<>>
    /\ rf_refined = <<>>
    /\ rf_again = <<>>
    /\ sm_pc = "idle"
    /\ sm_records = <<>>
    /\ sm_sort_by = "num_detections"
    /\ sm_df = <<>>
    /\ sm_summary = <<>>
    /\ fi_pc = "idle"
    /\ fi_base = "root"
    /\ fi_root = {}
    /\ fi_beside = {}
    /\ fi_deep = {}
    /\ fi_found = NoImage
    /\ cf_pc = "idle"
    /\ cf_raw = <<>>
    /\ cf_ids = {}
    /\ cf_names = {}

\* main, lines 181-200: the argument checks, then the list of label files
Start ==
    /\ ex_pc = "start"
    /\ \E runs_ok \in BOOLEAN, tree \in {"direct", "nested", "absent"},
          override \in {"none", "missing", "inside", "outside"},
          class_path \in ClassFiles, relative_paths \in BOOLEAN,
          listing \in Listings :
         LET labels_dir == resolve_labels_dir(tree, override)
             class_names == load_class_names(class_path)
             labels_missing == override = "missing"
                                  \/ (override = "none" /\ tree = "absent")
         IN /\ ex_table' = class_path
            /\ ex_missing' = (IF runs_ok THEN {} ELSE {"runs"})
                             \cup (IF labels_missing THEN {"labels"} ELSE {})
                             \cup (IF class_path = <<"missing">> THEN {"classes"}
                                   ELSE {})
            /\ IF ~runs_ok \/ labels_dir.err # "" \/ class_names.err # ""
               THEN /\ ex_pc' = "fatal"
                    /\ ex_status' = 1
                    /\ UNCHANGED <<ex_outside, ex_names, ex_relative, ex_files>>
               ELSE /\ ex_pc' = "loop"
                    /\ ex_outside' = (labels_dir.dir = "outside")
                    /\ ex_names' = class_names.names
                    /\ ex_relative' = relative_paths
                    /\ ex_files' = iter_label_files(listing)
                    /\ UNCHANGED ex_status
    /\ UNCHANGED <<ex_i, ex_seen, ex_records, ex_output>>

\* main, lines 202-245: one iteration of the loop over the label files
ProcessFile ==
    /\ ex_pc = "loop"
    /\ ex_i < Len(ex_files)
    /\ \E base \in {"root", "inside"} \cup (IF ex_outside THEN {"outside"} ELSE {}),
          at_root \in BOOLEAN, at_base \in BOOLEAN, deep \in BOOLEAN,
          image \in {<<>>} \cup ExportShapes, lines \in FileContents :
         \E found \in find_image_for_label(base, IF at_root THEN {1} ELSE {},
                                            IF at_base THEN {1} ELSE {},
                                            IF deep THEN {1} ELSE {}) :
            LET label_file == ex_files[ex_i + 1]
                where == found.dir
                dets == read_lines(lines, ex_names, image[2], image[1])
                image_path == IF ex_relative THEN relative_to(where)
                              ELSE [err |-> "", path |-> <<where, "absolute">>]
                skip(why) ==
                    /\ ex_seen' = Append(ex_seen, [file |-> label_file, ok |-> FALSE,
                                                   lines |-> <<>>])
                    /\ ex_i' = ex_i + 1
                    /\ UNCHANGED <<ex_pc, ex_records, ex_status>>
                raise ==
                    /\ ex_seen' = Append(ex_seen, [file |-> label_file, ok |-> TRUE,
                                                   lines |-> lines])
                    /\ ex_pc' = "raised"
                    /\ UNCHANGED <<ex_i, ex_records, ex_status>>
            IN IF found.err # "" THEN skip("image not found")
               ELSE IF image = <<>> THEN skip("image not loaded")
               ELSE IF dets.err # "" \/ image_path.err # "" THEN raise
               ELSE /\ ex_seen' = Append(ex_seen, [file |-> label_file, ok |-> TRUE,
                                                   lines |-> lines])
                    /\ ex_records' = Append(ex_records,
                          [image |-> label_file, image_path |-> image_path.path,
                           width |-> image[2], height |-> image[1],
                           detections |-> dets.dets])
                    /\ ex_i' = ex_i + 1
                    /\ UNCHANGED <<ex_pc, ex_status>>
    /\ UNCHANGED <<ex_missing, ex_outside, ex_table, ex_names, ex_relative, ex_files,
                   ex_output>>

\* main, lines 247-253: an empty result is warned about, then the output is
\* written and 0 returned
write_output(records) == [output |-> Written(records), status |-> 0]

Finish ==
    /\ ex_pc = "loop"
    /\ ex_i = Len(ex_files)
    /\ ex_output' = write_output(ex_records).output
    /\ ex_status' = write_output(ex_records).status
    /\ ex_pc' = "done"
    /\ UNCHANGED <<ex_missing, ex_outside, ex_table, ex_names, ex_relative, ex_files, ex_i,
                   ex_seen, ex_records>>

\* find_image_for_label called on its own: every arrangement of the images
\* of one stem over runs_dir, base_dir and the directories below runs_dir
InitFind ==
    /\ fi_pc = "search"
    /\ fi_base \in {"root", "inside", "outside"}
    /\ fi_root \in SUBSET IMAGE_EXTENSIONS
    /\ fi_beside \in SUBSET IMAGE_EXTENSIONS
    /\ fi_base = "root" => fi_beside = fi_root
    /\ fi_deep \in SUBSET IMAGE_EXTENSIONS
    /\ fi_found = NoImage
    \* the other scripts are not running
    /\ cv_pc = "idle"
    /\ cv_line = <<>>
    /\ cv_shape = <<1, 1>>
    /\ cv_parsed = ParseFail("none")
    /\ cv_box = NoBox
    /\ ex_pc = "idle"
    /\ ex_missing = {}
    /\ ex_outside = FALSE
    /\ ex_table = <<"none">>
    /\ ex_names = NoNames
    /\ ex_relative = FALSE
    /\ ex_files = <<>>
    /\ ex_i = 0
    /\ ex_seen = <<>>
    /\ ex_records = <<>>
    /\ ex_output = NoOutput
    /\ ex_status = -1
    /\ rf_pc = "idle"
    /\ rf_args = NoArgs
    /\ rf_dicts = <<>>
    /\ rf_lists = <<>>
    /\ rf_records = <<>>
    /\ rf_given = <<>>
    /\ rf_i = 0
    /\ rf_filtered = <<>>
    /\ rf_refined = <<>>
    /\ rf_again = <<>>
    /\ sm_pc = "idle"
    /\ sm_records = <<>>
    /\ sm_sort_by = "num_detections"
    /\ sm_df = <<>>
    /\ sm_summary = <<>>
    /\ cf_pc = "idle"
    /\ cf_raw = <<>>
    /\ cf_ids = {}
    /\ cf_names = {}

FindImage ==
    /\ fi_pc = "search"
    /\ fi_found' \in find_image_for_label(fi_base, fi_root, fi_beside, fi_deep)
    /\ fi_pc' = "found"
    /\ UNCHANGED <<fi_base, fi_root, fi_beside, fi_deep>>

------------------------------------------------------------------------------
(* Refiner: refine_detections.py *)

\* str.lower() on the class names of the model
Lower(name) == IF name = "Dog" THEN "dog" ELSE name

\* float(conf) if conf is not None else 0.0
conf_value(detection) ==
    IF detection.confidence = None THEN Num(0) ELSE detection.confidence

detection_passes_And(detection, min_conf, allowed_ids, allowed_names) ==
    IF FLt(conf_value(detection), min_conf) THEN FALSE
    ELSE IF allowed_ids = {} /\ allowed_names = {} THEN TRUE
    ELSE /\ allowed_ids # {} => (detection.class_id.k = "int"
                                   /\ detection.class_id.v \in allowed_ids)
         /\ allowed_names # {} => (detection.class_name # NullName
                                     /\ Lower(detection.class_name) \in allowed_names)

detection_passes_NoGate(detection, min_conf, allowed_ids, allowed_names) ==
    IF allowed_ids = {} /\ allowed_names = {} THEN TRUE
    ELSE IF allowed_ids # {} /\ detection.class_id.k = "int"
            /\ detection.class_id.v \in allowed_ids THEN TRUE
    ELSE IF allowed_names # {} /\ detection.class_name # NullName
            /\ Lower(detection.class_name) \in allowed_names THEN TRUE
    ELSE FALSE

detection_passes(detection, min_conf, allowed_ids, allowed_names) ==
    IF FLt(conf_value(detection), min_conf) THEN FALSE
    ELSE IF allowed_ids = {} /\ allowed_names = {} THEN TRUE
    ELSE IF allowed_ids # {} /\ detection.class_id.k = "int"
            /\ detection.class_id.v \in allowed_ids THEN TRUE
    ELSE IF allowed_names # {} /\ detection.class_name # NullName
            /\ Lower(detection.class_name) \in allowed_names THEN TRUE
    ELSE FALSE

\* the list comprehension of lines 100-104
filter_detections(detections, args) ==
    SelectSeq(detections,
              LAMBDA det : detection_passes(det, args.min_conf, args.allowed_ids,
                                            args.allowed_names))

\* float(conf or 0.0): None and 0.0 are falsy
float_or_zero(conf) == IF conf = None \/ conf = Num(0) THEN Num(0) ELSE conf

\* the sort key of line 107
sort_key(d) == float_or_zero(d.confidence)

\* list.sort(key, reverse=True): descending and stable
RECURSIVE InsertDesc_BeforeEqual(_, _)
InsertDesc_BeforeEqual(sorted, d) ==
    IF sorted = <<>> THEN <<d>>
    ELSE IF ~FLt(sort_key(d), sort_key(Head(sorted))) THEN <<d>> \o sorted
    ELSE <<Head(sorted)>> \o InsertDesc_BeforeEqual(Tail(sorted), d)

RECURSIVE InsertDesc(_, _)
InsertDesc(sorted, d) ==
    IF sorted = <<>> THEN <<d>>
    ELSE IF FLt(sort_key(Head(sorted)), sort_key(d)) THEN <<d>> \o sorted
    ELSE <<Head(sorted)>> \o InsertDesc(Tail(sorted), d)

RECURSIVE sort_desc_TiesReversed(_, _)
sort_desc_TiesReversed(done, todo) ==
    IF todo = <<>> THEN done
    ELSE sort_desc_TiesReversed(InsertDesc_BeforeEqual(done, Head(todo)), Tail(todo))

RECURSIVE sort_desc_stable(_, _)
sort_desc_stable(done, todo) ==
    IF todo = <<>> THEN done
    ELSE sort_desc_stable(InsertDesc(done, Head(todo)), Tail(todo))

\* the strings of the model in str order, and sorted() of a set of them
StrOrder == <<"0", "1", "Dog", "cat", "class_0", "class_0.0", "class_1",
              "class_1.0", "class_None", "class_nan", "dog">>
StrRank(str) == CHOOSE n \in 1..Len(StrOrder) : StrOrder[n] = str
RECURSIVE SortedStrings(_)
SortedStrings(strs) ==
    IF strs = {} THEN <<>>
    ELSE LET least == CHOOSE a \in strs : \A b \in strs : StrRank(a) <= StrRank(b)
         IN <<least>> \o SortedStrings(strs \ {least})
\* str() of a class id of the model
Str(n) == IF n = 0 THEN "0" ELSE "1"

NoMeta == [present |-> FALSE, num_detections |-> 0, num_original |-> 0,
           min_conf_applied |-> Num(0), has_class_filter |-> FALSE,
           class_filter |-> <<>>]

\* lines 118-128: the meta block of a new record
make_meta_CountKept(filtered, detections, args) ==
    [present |-> TRUE,
     num_detections |-> Len(filtered),
     num_original |-> Len(filtered),
     min_conf_applied |-> args.min_conf,
     has_class_filter |-> (args.allowed_ids # {} \/ args.allowed_names # {}),
     class_filter |-> IF args.allowed_ids # {} \/ args.allowed_names # {}
                      THEN SortedStrings({Str(n) : n \in args.allowed_ids}
                                         \cup args.allowed_names)
                      ELSE <<>>]

make_meta(filtered, detections, args) ==
    [present |-> TRUE,
     num_detections |-> Len(filtered),
     num_original |-> Len(detections),
     min_conf_applied |-> args.min_conf,
     has_class_filter |-> (args.allowed_ids # {} \/ args.allowed_names # {}),
     class_filter |-> IF args.allowed_ids # {} \/ args.allowed_names # {}
                      THEN SortedStrings({Str(n) : n \in args.allowed_ids}
                                         \cup args.allowed_names)
                      ELSE <<>>]

\* line 109: whether the record is left out
dropped_Never(drop_empty, filtered) == FALSE

dropped(drop_empty, filtered) == drop_empty /\ filtered = <<>>

\* Which dict the new record is written to: lines 112-123 build a new dict.
new_record_target_InPlace(record_id, fresh_id) == record_id

new_record_target(record_id, fresh_id) == fresh_id

\* Which list `filtered` is: lines 100-104 build a new list.
filtered_target(list_id, fresh_id) == fresh_id

\* heap[id] := value, where id is an existing identity or the next new one
Store(heap, id, value) ==
    IF id = Len(heap) + 1 THEN Append(heap, value)
    ELSE [heap EXCEPT ![id] = value]

Det(id, name, conf) == [class_id |-> id, class_name |-> name, confidence |-> conf]
DetPool == {Det(PInt(0), "cat", Num(3)), Det(PInt(1), "Dog", Num(2)),
            Det(PInt(1), "cat", Num(2)), Det(None, NullName, None)}
DetLists == SeqsUpTo(DetPool, MaxDets)
Thresholds == {Num(q) : q \in 0..MaxConf}
IdSets == SUBSET {0, 1}
NameSets == {{}, {"dog"}, {"Dog"}}

\* the input record at position n, with its detections in list n
InputDict(n) ==
    [image |-> n, image_path |-> <<"root", "absolute">>, width |-> n, height |-> 1,
     detections |-> n, meta |-> NoMeta]

InitRefine ==
    /\ rf_pc = "loop"
    /\ rf_args \in [min_conf : Thresholds, allowed_ids : IdSets,
                    allowed_names : NameSets, drop_empty : BOOLEAN,
                    sort_desc : BOOLEAN]
    /\ rf_lists \in SeqsUpTo(DetLists, MaxRecs)
    /\ rf_dicts = [n \in 1..Len(rf_lists) |-> InputDict(n)]
    /\ rf_records = [n \in 1..Len(rf_lists) |-> n]
    /\ rf_given = [n \in 1..Len(rf_lists) |->
                      [dict |-> InputDict(n), detections |-> rf_lists[n]]]
    /\ rf_i = 0
    /\ rf_filtered = <<>>
    /\ rf_refined = <<>>
    /\ rf_again = <<>>
    \* the other scripts are not running
    /\ cv_pc = "idle"
    /\ cv_line = <<>>
    /\ cv_shape = <<1, 1>>
    /\ cv_parsed = ParseFail("none")
    /\ cv_box = NoBox
    /\ ex_pc = "idle"
    /\ ex_missing = {}
    /\ ex_outside = FALSE
    /\ ex_table = <<"none">>
    /\ ex_names = NoNames
    /\ ex_relative = FALSE
    /\ ex_files = <<>>
    /\ ex_i = 0
    /\ ex_seen = <<>>
    /\ ex_records = <<>>
    /\ ex_output = NoOutput
    /\ ex_status = -1
    /\ sm_pc = "idle"
    /\ sm_records = <<>>
    /\ sm_sort_by = "num_detections"
    /\ sm_df = <<>>
    /\ sm_summary = <<>>
    /\ fi_pc = "idle"
    /\ fi_base = "root"
    /\ fi_root = {}
    /\ fi_beside = {}
    /\ fi_deep = {}
    /\ fi_found = NoImage
    /\ cf_pc = "idle"
    /\ cf_raw = <<>>
    /\ cf_ids = {}
    /\ cf_names = {}

\* refine_records, lines 98-130: one iteration of the loop over the records
RefineRecord ==
    /\ rf_pc = "loop"
    /\ rf_i < Len(rf_records)
    /\ LET record_id == rf_records[rf_i + 1]
           record == rf_dicts[record_id]
           detections == rf_lists[record.detections]
           filtered_id == filtered_target(record.detections, Len(rf_lists) + 1)
           passed == filter_detections(detections, rf_args)
           filtered == IF rf_args.sort_desc THEN sort_desc_stable(<<>>, passed)
                       ELSE passed
           lists == Store(rf_lists, filtered_id, filtered)
           new_id == new_record_target(record_id, Len(rf_dicts) + 1)
           new_record == [image |-> record.image, image_path |-> record.image_path,
                          width |-> record.width, height |-> record.height,
                          detections |-> filtered_id,
                          meta |-> make_meta(filtered, detections, rf_args)]
       IN /\ rf_lists' = lists
          /\ rf_filtered' = Append(rf_filtered, filtered)
          /\ IF dropped(rf_args.drop_empty, filtered)
             THEN UNCHANGED <<rf_dicts, rf_refined>>
             ELSE /\ rf_dicts' = Store(rf_dicts, new_id, new_record)
                  /\ rf_refined' = Append(rf_refined, new_id)
    /\ rf_i' = rf_i + 1
    /\ UNCHANGED <<rf_pc, rf_args, rf_records, rf_given, rf_again>>

\* refine_records, line 131: return refined
RefineReturn ==
    /\ rf_pc = "loop"
    /\ rf_i = Len(rf_records)
    /\ rf_pc' = "done"
    /\ UNCHANGED <<rf_args, rf_dicts, rf_lists, rf_records, rf_given, rf_i,
                   rf_filtered, rf_refined, rf_again>>

\* refine_records applied to records given by value (each with its list of
\* detections in the field `detections`): what it returns, by value
RECURSIVE refine_records(_, _)
refine_records(records, args) ==
    IF records = <<>> THEN <<>>
    ELSE LET record == records[Len(records)]
             refined == refine_records(SubSeq(records, 1, Len(records) - 1), args)
             detections == record.detections
             passed == filter_detections(detections, args)
             filtered == IF args.sort_desc THEN sort_desc_stable(<<>>, passed)
                         ELSE passed
             new_record == [image |-> record.image, image_path |-> record.image_path,
                            width |-> record.width, height |-> record.height,
                            detections |-> filtered,
                            meta |-> make_meta(filtered, detections, args)]
         IN IF dropped(args.drop_empty, filtered) THEN refined
            ELSE Append(refined, new_record)

\* the records refine_records returned, by value
Returned ==
    [j \in 1..Len(rf_refined) |->
        [rf_dicts[rf_refined[j]] EXCEPT
            !.detections = rf_lists[rf_dicts[rf_refined[j]].detections]]]

\* refine_records called again, with the same arguments, on what it returned
RefineAgain ==
    /\ rf_pc = "done"
    /\ rf_again' = refine_records(Returned, rf_args)
    /\ rf_pc' = "reapplied"
    /\ UNCHANGED <<rf_args, rf_dicts, rf_lists, rf_records, rf_given, rf_i,
                   rf_filtered, rf_refined>>

\* The pieces of a --classes string between its commas, and on them
\* str.strip(), int() (which accepts a sign, and raises ValueError for
\* anything but an integer literal) and str.lower().
Pieces == {"0", " 1 ", "+1", "Dog", " cat", "", " ", "1.0"}
Strip(piece) ==
    CASE piece = " 1 " -> "1"
      [] piece = " cat" -> "cat"
      [] piece = " " -> ""
      [] OTHER -> piece
PyInt(token) ==
    CASE token = "0" -> [err |-> "", val |-> 0]
      [] token \in {"1", "+1"} -> [err |-> "", val |-> 1]
      [] OTHER -> [err |-> "ValueError", val |-> 0]

\* most pieces in a --classes string
MaxPieces == 3

\* parse_class_filter(spec); spec is None (written <<>>) or the sequence
\* spec.split(","), which has at least one piece
RECURSIVE parse_class_filter_KeepEmpty(_)
parse_class_filter_KeepEmpty(spec) ==
    IF spec = <<>> THEN [ids |-> {}, names |-> {}]
    ELSE LET token == Strip(spec[Len(spec)])
             before == parse_class_filter_KeepEmpty(SubSeq(spec, 1, Len(spec) - 1))
         IN IF PyInt(token).err = ""
            THEN [before EXCEPT !.ids = @ \cup {PyInt(token).val}]
            ELSE [before EXCEPT !.names = @ \cup {Lower(token)}]

RECURSIVE parse_class_filter(_)
parse_class_filter(spec) ==
    IF spec = <<>> THEN [ids |-> {}, names |-> {}]
    ELSE LET token == Strip(spec[Len(spec)])
             before == parse_class_filter(SubSeq(spec, 1, Len(spec) - 1))
         IN IF token = "" THEN before
            ELSE IF PyInt(token).err = ""
            THEN [before EXCEPT !.ids = @ \cup {PyInt(token).val}]
            ELSE [before EXCEPT !.names = @ \cup {Lower(token)}]

InitFilter ==
    /\ cf_pc = "raw"
    /\ cf_raw \in SeqsUpTo(Pieces, MaxPieces)
    /\ cf_ids = {}
    /\ cf_names = {}
    \* the other scripts are not running
    /\ cv_pc = "idle"
    /\ cv_line = <<>>
    /\ cv_shape = <<1, 1>>
    /\ cv_parsed = ParseFail("none")
    /\ cv_box = NoBox
    /\ ex_pc = "idle"
    /\ ex_missing = {}
    /\ ex_outside = FALSE
    /\ ex_table = <<"none">>
    /\ ex_names = NoNames
    /\ ex_relative = FALSE
    /\ ex_files = <<>>
    /\ ex_i = 0
    /\ ex_seen = <<>>
    /\ ex_records = <<>>
    /\ ex_output = NoOutput
    /\ ex_status = -1
    /\ rf_pc = "idle"
    /\ rf_args = NoArgs
    /\ rf_dicts = <<>>
    /\ rf_lists = <<>>
    /\ rf_records = <<>>
    /\ rf_given = <<>>
    /\ rf_i = 0
    /\ rf_filtered = <<>>
    /\ rf_refined = <<>>
    /\ rf_again = <<>>
    /\ sm_pc = "idle"
    /\ sm_records = <<>>
    /\ sm_sort_by = "num_detections"
    /\ sm_df = <<>>
    /\ sm_summary = <<>>
    /\ fi_pc = "idle"
    /\ fi_base = "root"
    /\ fi_root = {}
    /\ fi_beside = {}
    /\ fi_deep = {}
    /\ fi_found = NoImage

\* main, line 144: allowed_ids, allowed_names = parse_class_filter(args.classes)
ParseClassFilter ==
    /\ cf_pc = "raw"
    /\ cf_ids' = parse_class_filter(cf_raw).ids
    /\ cf_names' = parse_class_filter(cf_raw).names
    /\ cf_pc' = "parsed"
    /\ UNCHANGED cf_raw

------------------------------------------------------------------------------
(* Summariser: detection_summary.py *)

RECURSIVE Flatten(_)
Flatten(seqs) == IF seqs = <<>> THEN <<>> ELSE Head(seqs) \o Flatten(Tail(seqs))

\* The class_id column of pd.DataFrame(rows): int64 when every id is an int;
\* float64, with NaN for None, when ints and None are mixed; object, holding
\* None, when every id is None.
column_value(class_id, ids) ==
    IF \A n \in 1..Len(ids) : ids[n] # None THEN class_id
    ELSE IF \A n \in 1..Len(ids) : ids[n] = None THEN None
    ELSE IF class_id = None THEN [k |-> "nan", v |-> 0]
    ELSE [k |-> "float", v |-> class_id.v]

\* build_dataframe: one row per detection, in record and detection order
build_dataframe(records) ==
    LET rows == Flatten([r \in 1..Len(records) |->
                    [n \in 1..Len(records[r].detections) |->
                        [image |-> records[r].image,
                         class_id |-> records[r].detections[n].class_id,
                         class_name |-> records[r].detections[n].class_name,
                         confidence |->
                             float_or_zero(records[r].detections[n].confidence)]]])
        ids == [n \in 1..Len(rows) |-> rows[n].class_id]
    IN [n \in 1..Len(rows) |->
           [rows[n] EXCEPT !.class_id = column_value(rows[n].class_id, ids)]]

\* f"class_{row['class_id']}" for the class ids of the model
class_label(class_id) ==
    CASE class_id.k = "int" -> IF class_id.v = 0 THEN "class_0" ELSE "class_1"
      [] class_id.k = "float" -> IF class_id.v = 0 THEN "class_0.0" ELSE "class_1.0"
      [] class_id.k = "nan" -> "class_nan"
      [] OTHER -> "class_None"

\* lines 72-77: the name if it is truthy, else the label
class_display(row) ==
    IF row.class_name # NullName /\ row.class_name # "" THEN row.class_name
    ELSE class_label(row.class_id)

group_key(row) == [class_display |-> class_display(row), class_id |-> row.class_id]

\* order of the group keys: class_display, then class_id with NaN / None last
IsNumber(class_id) == class_id.k \in {"int", "float"}
KeyBefore(a, b) ==
    \/ StrRank(a.class_display) < StrRank(b.class_display)
    \/ /\ a.class_display = b.class_display
       /\ IsNumber(a.class_id)
       /\ IsNumber(b.class_id) => a.class_id.v < b.class_id.v

RECURSIVE SortedKeys(_)
SortedKeys(keys) ==
    IF keys = {} THEN <<>>
    ELSE LET least == CHOOSE a \in keys : \A b \in keys \ {a} : KeyBefore(a, b)
         IN <<least>> \o SortedKeys(keys \ {least})

\* the keys groupby(..., dropna=False) makes groups for
group_keys_DropNa(df) ==
    {group_key(df[n]) : n \in {m \in 1..Len(df) : IsNumber(df[m].class_id)}}

group_keys(df) == {group_key(df[n]) : n \in 1..Len(df)}

RECURSIVE SumV(_)
SumV(confs) == IF confs = <<>> THEN 0 ELSE Head(confs).v + SumV(Tail(confs))
RECURSIVE MaxV(_)
MaxV(confs) ==
    IF Len(confs) = 1 THEN Head(confs).v
    ELSE IF Head(confs).v >= MaxV(Tail(confs)) THEN Head(confs).v
    ELSE MaxV(Tail(confs))

\* lines 79-87: one row per group, in key order; the mean is kept as the
\* fraction total / count (both in quarters)
aggregate(df) ==
    LET keys == SortedKeys(group_keys(df))
        confs(key) == LET members == SelectSeq(df, LAMBDA row : group_key(row) = key)
                      IN [n \in 1..Len(members) |-> members[n].confidence]
    IN [g \in 1..Len(keys) |->
           [class_display |-> keys[g].class_display, class_id |-> keys[g].class_id,
            num_detections |-> Len(confs(keys[g])),
            mean_confidence |-> [total |-> SumV(confs(keys[g])),
                                 count |-> Len(confs(keys[g]))],
            max_confidence |-> Num(MaxV(confs(keys[g])))]]

\* row a has a smaller value than row b in column `by`
ColumnLess(a, b, by) ==
    CASE by = "num_detections" -> a.num_detections < b.num_detections
      [] by = "mean_confidence" ->
            a.mean_confidence.total * b.mean_confidence.count
                < b.mean_confidence.total * a.mean_confidence.count
      [] OTHER -> a.max_confidence.v < b.max_confidence.v

Orderings(n) == {o \in [1..n -> 1..n] : \A a, b \in 1..n : a # b => o[a] # o[b]}

\* sort_values(by, ascending=False) with the default kind "quicksort", which
\* is not stable: every arrangement of the rows that is descending in the
\* column is a possible result
sort_values_Asc(rows, by) ==
    {[j \in 1..Len(rows) |-> rows[o[j]]] : o \in
        {o \in Orderings(Len(rows)) :
            \A a, b \in 1..Len(rows) : a < b => ~ColumnLess(rows[o[b]], rows[o[a]], by)}}

sort_values(rows, by) ==
    {[j \in 1..Len(rows) |-> rows[o[j]]] : o \in
        {o \in Orderings(Len(rows)) :
            \A a, b \in 1..Len(rows) : a < b => ~ColumnLess(rows[o[a]], rows[o[b]], by)}}

\* summarise(df, sort_by): the possible results
summarise(df, sort_by) ==
    IF df = <<>> THEN {<<>>} ELSE sort_values(aggregate(df), sort_by)

SummaryPool == DetPool \cup {Det(PInt(1), NullName, Num(1))}
SummaryInputs ==
    {[n \in 1..Len(lists) |-> [image |-> n, detections |-> lists[n]]] :
        lists \in SeqsUpTo(SeqsUpTo(SummaryPool, MaxDets), MaxRecs)}

InitSummary ==
    /\ sm_pc = "records"
    /\ sm_records \in SummaryInputs
    /\ sm_sort_by \in {"num_detections", "mean_confidence", "max_confidence"}
    /\ sm_df = <<>>
    /\ sm_summary = <<>>
    /\ fi_pc = "idle"
    /\ fi_base = "root"
    /\ fi_root = {}
    /\ fi_beside = {}
    /\ fi_deep = {}
    /\ fi_found = NoImage
    /\ cf_pc = "idle"
    /\ cf_raw = <<>>
    /\ cf_ids = {}
    /\ cf_names = {}
    \* the other scripts are not running
    /\ cv_pc = "idle"
    /\ cv_line = <<>>
    /\ cv_shape = <<1, 1>>
    /\ cv_parsed = ParseFail("none")
    /\ cv_box = NoBox
    /\ ex_pc = "idle"
    /\ ex_missing = {}
    /\ ex_outside = FALSE
    /\ ex_table = <<"none">>
    /\ ex_names = NoNames
    /\ ex_relative = FALSE
    /\ ex_files = <<>>
    /\ ex_i = 0
    /\ ex_seen = <<>>
    /\ ex_records = <<>>
    /\ ex_output = NoOutput
    /\ ex_status = -1
    /\ rf_pc = "idle"
    /\ rf_args = NoArgs
    /\ rf_dicts = <<>>
    /\ rf_lists = <<>>
    /\ rf_records = <<>>
    /\ rf_given = <<>>
    /\ rf_i = 0
    /\ rf_filtered = <<>>
    /\ rf_refined = <<>>
    /\ rf_again = <<>>

\* main, line 119: df = build_dataframe(records)
BuildDataframe ==
    /\ sm_pc = "records"
    /\ sm_df' = build_dataframe(sm_records)
    /\ sm_pc' = "frame"
    /\ UNCHANGED <<sm_records, sm_sort_by, sm_summary>>

\* main, line 120: summary = summarise(df, sort_by=args.sort_by)
Summarise ==
    /\ sm_pc = "frame"
    /\ sm_summary' \in summarise(sm_df, sm_sort_by)
    /\ sm_pc' = "done"
    /\ UNCHANGED <<sm_records, sm_sort_by, sm_df>>

NextConvert ==
    \/ ParseLine /\ UNCHANGED <<evars, rvars, svars, fvars, pvars>>
    \/ ConvertLine /\ UNCHANGED <<evars, rvars, svars, fvars, pvars>>

NextExport ==
    \/ Start /\ UNCHANGED <<cvars, rvars, svars, fvars, pvars>>
    \/ ProcessFile /\ UNCHANGED <<cvars, rvars, svars, fvars, pvars>>
    \/ Finish /\ UNCHANGED <<cvars, rvars, svars, fvars, pvars>>

NextRefine ==
    \/ RefineRecord /\ UNCHANGED <<cvars, evars, svars, fvars, pvars>>
    \/ RefineReturn /\ UNCHANGED <<cvars, evars, svars, fvars, pvars>>
    \/ RefineAgain /\ UNCHANGED <<cvars, evars, svars, fvars, pvars>>

NextSummary ==
    \/ BuildDataframe /\ UNCHANGED <<cvars, evars, rvars, fvars, pvars>>
    \/ Summarise /\ UNCHANGED <<cvars, evars, rvars, fvars, pvars>>

NextFind ==
    \/ FindImage /\ UNCHANGED <<cvars, evars, rvars, svars, pvars>>

NextFilter ==
    \/ ParseClassFilter /\ UNCHANGED <<cvars, evars, rvars, svars, fvars>>

SpecConvert == InitConvert /\ [][NextConvert]_vars
SpecExport == InitExport /\ [][NextExport]_vars
SpecRefine == InitRefine /\ [][NextRefine]_vars
SpecSummary == InitSummary /\ [][NextSummary]_vars
SpecFind == InitFind /\ [][NextFind]_vars
SpecFilter == InitFilter /\ [][NextFilter]_vars

------------------------------------------------------------------------------
(* Claims about the conversion *)

\* C1: for every line parse_label_line accepts and every positive image size,
\* the box convert_to_pixels returns satisfies 0 <= x1 <= x2 <= width and
\* 0 <= y1 <= y2 <= height.
C1_BoxOrdered ==
    (cv_pc = "converted" /\ cv_box.err = "") =>
        /\ 0 <= cv_box.x1 /\ cv_box.x1 <= cv_box.x2 /\ cv_box.x2 <= cv_shape[2]
        /\ 0 <= cv_box.y1 /\ cv_box.y1 <= cv_box.y2 /\ cv_box.y2 <= cv_shape[1]

\* the clamped coordinates of the converted line, in eighths of a pixel,
\* beside the integers convert_to_pixels returned for them
ClampedCoordinates ==
    LET x_center == FScale(cv_parsed.cx, 2 * cv_shape[2])
        y_center == FScale(cv_parsed.cy, 2 * cv_shape[1])
        half_w == FScale(cv_parsed.w, cv_shape[2])
        half_h == FScale(cv_parsed.h, cv_shape[1])
        xmax == Num(8 * cv_shape[2])
        ymax == Num(8 * cv_shape[1])
    IN {<<clamp(FSub(x_center, half_w), Num(0), xmax), cv_box.x1>>,
        <<clamp(FSub(y_center, half_h), Num(0), ymax), cv_box.y1>>,
        <<clamp(FAdd(x_center, half_w), Num(0), xmax), cv_box.x2>>,
        <<clamp(FAdd(y_center, half_h), Num(0), ymax), cv_box.y2>>}

\* C13: convert_to_pixels rounds ties away from zero: a clamped value of
\* exactly k + 0.5 (k >= 0) gives k + 1, for even k as for odd k.
C13_HalfAwayFromZero ==
    (cv_pc = "converted" /\ cv_box.err = "") =>
        \A c \in ClampedCoordinates :
            (c[1].k = "num" /\ c[1].v % 8 = 4) => c[2] = c[1].v \div 8 + 1

------------------------------------------------------------------------------
(* Claims about the image search *)

FirstOf(exts) == CHOOSE e \in exts : \A f \in exts : e <= f

\* C11: find_image_for_label returns the first existing candidate in the
\* order runs_dir (over the extensions in order), then base_dir, then the
\* recursive search; with images under both runs_dir and base_dir the one
\* under runs_dir is returned; it fails only when no candidate exists.
C11_RootBeforeBase ==
    fi_pc = "found" =>
        IF fi_root # {}
        THEN fi_found = [err |-> "", dir |-> "root", ext |-> FirstOf(fi_root)]
        ELSE IF fi_base # "root" /\ fi_beside # {}
        THEN fi_found = [err |-> "", dir |-> fi_base, ext |-> FirstOf(fi_beside)]
        ELSE IF fi_deep # {}
        THEN fi_found.err = "" /\ fi_found.ext \in fi_deep
        ELSE fi_found.err = "FileNotFoundError"

------------------------------------------------------------------------------
(* Claims about the exporter *)

\* What the specification calls a well-formed line: at least 5 tokens, the
\* first a number with an integral value, the next four numeric.
Numeric(tok) == tok.k \in {"num", "inf", "nan"}
WellFormed(line) ==
    /\ Len(line) >= 5
    /\ line[1].k = "num" /\ line[1].v % 4 = 0
    /\ \A n \in 2..5 : Numeric(line[n])

\* the values a detection was built from, as they stand on its line
ValuesOfLine(line) ==
    <<line[1].v \div 4, line[2], line[3], line[4], line[5]>>
ValuesOfDetection(det) ==
    <<det.class_id.v, det.bbox_norm[1], det.bbox_norm[2], det.bbox_norm[3],
      det.bbox_norm[4]>>

\* C14: parse_label_line succeeds exactly when the line has at least 5
\* tokens, the first a number with an integral value and the next four
\* numeric; in every other case it fails with the parse error (ValueError)
\* that the exporter catches.
C14_ParsesExactlyWellFormed ==
    cv_pc \in {"parsed", "rejected", "converted"} =>
        IF WellFormed(cv_line) THEN cv_parsed.err = ""
        ELSE cv_parsed.err = "ValueError"

\* the name the table gives class id k: the one on line index k, none when k
\* is outside the table (a blank line is taken to name nothing)
NameOnLine(table, k) ==
    IF table = <<"none">> \/ k < 0 \/ k >= Len(table) THEN {NullName}
    ELSE IF table[k + 1] = "" THEN {NullName, ""}
    ELSE {table[k + 1]}

\* C16: with a class-name table a detection of class k is named by line
\* index k of the table, and by null when k is outside it; without a table
\* every class_name is null; blank lines in the file do not change this.
C16_NameIsLineOfTable ==
    \A r \in 1..Len(ex_records) :
        \A n \in 1..Len(ex_records[r].detections) :
            LET det == ex_records[r].detections[n]
            IN det.class_name \in NameOnLine(ex_table, det.class_id.v)

MapSeq(f(_), xs) == [n \in 1..Len(xs) |-> f(xs[n])]

\* C7: the output holds exactly one record per label file whose image resolved
\* and loaded, in sorted file order, and each record's detections are exactly
\* the well-formed non-blank lines of its file in line order; a malformed line
\* or an unusable image removes only itself.
C7_RecordsMatchFiles ==
    ex_pc \in {"done", "raised"} =>
        LET usable == SelectSeq(ex_seen, LAMBDA s : s.ok)
        IN /\ ex_output.written
           /\ Len(ex_output.records) = Len(usable)
           /\ \A n \in 1..Len(usable) :
                 /\ ex_output.records[n].image = usable[n].file
                 /\ n > 1 => usable[n - 1].file < usable[n].file
                 /\ MapSeq(ValuesOfDetection, ex_output.records[n].detections)
                      = MapSeq(ValuesOfLine,
                               SelectSeq(usable[n].lines, WellFormed))

\* C8: a run ends either with every label file processed and the output
\* written, or by a fatal error before the first label file; nothing aborts it
\* once the loop over the label files has started.
C8_NoAbortInLoop ==
    ex_pc \in {"done", "fatal", "raised"} =>
        \/ ex_pc = "done" /\ ex_i = Len(ex_files) /\ ex_output = Written(ex_records)
        \/ ex_pc = "fatal" /\ ex_seen = <<>> /\ ex_output = NoOutput

\* C9: a run that produced zero records still writes the empty output and
\* returns 0; a run whose runs directory, labels directory or class-name file
\* is missing returns a non-zero status and writes nothing.
C9_ExitStatus ==
    /\ (ex_pc \in {"done", "fatal"} /\ ex_missing = {} /\ ex_records = <<>>)
           => (ex_status = 0 /\ ex_output = Written(<<>>))
    /\ (ex_pc # "start" /\ ex_missing # {})
           => (ex_pc = "fatal" /\ ex_status # 0 /\ ex_output = NoOutput)

\* a run over label files none of which gave a record, ended with status 0
C9_Witness ==
    /\ ex_pc = "done" /\ Len(ex_files) = MaxFiles /\ ex_records = <<>>
    /\ ex_output = Written(<<>>) /\ ex_status = 0

------------------------------------------------------------------------------
(* Claims about the refiner *)

RefinedRecord(j) == rf_dicts[rf_refined[j]]
RefinedDetections(j) == rf_lists[RefinedRecord(j).detections]
Occurs(d, dets) == \E m \in 1..Len(dets) : dets[m] = d

\* the confidence of a detection in quarters, an absent one counting as 0.0
ConfOrZero(d) == IF d.confidence = None THEN 0 ELSE d.confidence.v

\* C2: every detection in the output of refine_records has a confidence (0.0
\* when absent) of at least min_conf.
C2_SurvivorsMeetThreshold ==
    \A j \in 1..Len(rf_refined) :
        \A n \in 1..Len(RefinedDetections(j)) :
            ConfOrZero(RefinedDetections(j)[n]) >= rf_args.min_conf.v

\* a finished call with a positive threshold that kept a detection and left
\* out one without confidence
C2_Witness ==
    /\ rf_pc = "done" /\ rf_args.min_conf.v > 0
    /\ \E j \in 1..Len(rf_refined) : RefinedDetections(j) # <<>>
    /\ \E k \in 1..Len(rf_given) :
          /\ Occurs(Det(None, NullName, None), rf_given[k].detections)
          /\ ~Occurs(Det(None, NullName, None), rf_filtered[k])

\* the predicate as the specification states it
PassesAsSpecified(d, args) ==
    /\ ConfOrZero(d) >= args.min_conf.v
    /\ \/ args.allowed_ids = {} /\ args.allowed_names = {}
       \/ d.class_id # None /\ d.class_id.v \in args.allowed_ids
       \/ d.class_name # NullName /\ Lower(d.class_name) \in args.allowed_names

\* C3: a detection passes exactly when its confidence (0.0 if absent) is at
\* least min_conf and both sets are empty, or its class_id is in the id-set, or
\* its lower-cased class_name is in the name-set.
C3_PassesIffSpecified ==
    \A k \in 1..Len(rf_filtered) :
        /\ \A n \in 1..Len(rf_given[k].detections) :
              LET d == rf_given[k].detections[n]
              IN Occurs(d, rf_filtered[k]) <=> PassesAsSpecified(d, rf_args)
        /\ \A m \in 1..Len(rf_filtered[k]) :
              Occurs(rf_filtered[k][m], rf_given[k].detections)

\* both sets non-empty; one detection passed on its id alone and another on
\* its name alone
C3_Witness ==
    /\ rf_args.allowed_ids # {} /\ rf_args.allowed_names # {}
    /\ \E k \in 1..Len(rf_filtered) :
          \E a, b \in 1..Len(rf_filtered[k]) :
              LET d == rf_filtered[k][a]
                  e == rf_filtered[k][b]
              IN /\ d.class_id.v \in rf_args.allowed_ids
                 /\ Lower(d.class_name) \notin rf_args.allowed_names
                 /\ e.class_id.v \notin rf_args.allowed_ids
                 /\ Lower(e.class_name) \in rf_args.allowed_names

\* the input positions whose records the specification keeps
KeptAsSpecified ==
    SelectSeq([k \in 1..Len(rf_given) |-> k],
              LAMBDA k : ~rf_args.drop_empty
                           \/ \E n \in 1..Len(rf_given[k].detections) :
                                 PassesAsSpecified(rf_given[k].detections[n], rf_args))

\* C4: with drop_empty the output omits exactly the records none of whose
\* detections pass, keeps the others in input order and is no longer than the
\* input; without drop_empty every input record gives one output record.
C4_DropEmpty ==
    rf_pc = "done" =>
        /\ Len(rf_refined) = Len(KeptAsSpecified)
        /\ Len(rf_refined) <= Len(rf_given)
        /\ ~rf_args.drop_empty => Len(rf_refined) = Len(rf_given)
        /\ \A j \in 1..Len(rf_refined) :
              /\ RefinedRecord(j).image = rf_given[KeptAsSpecified[j]].dict.image
              /\ RefinedDetections(j) = rf_filtered[KeptAsSpecified[j]]

\* drop_empty left out the first of two records and kept the second
C4_Witness ==
    /\ rf_pc = "done" /\ rf_args.drop_empty
    /\ Len(rf_given) = 2 /\ Len(rf_refined) = 1
    /\ rf_given[1].detections # <<>>
    /\ RefinedRecord(1).image = rf_given[2].dict.image

\* C10: refine_records leaves its input as it was (the same records with the
\* same fields, the same detections in the same order, no meta block), and
\* the records and detection lists of the output are new objects.
C10_InputUnchanged ==
    /\ Len(rf_records) = Len(rf_given)
    /\ \A k \in 1..Len(rf_records) :
          /\ rf_records[k] = k
          /\ rf_dicts[k] = rf_given[k].dict
          /\ ~rf_dicts[k].meta.present
          /\ rf_lists[rf_dicts[k].detections] = rf_given[k].detections
    /\ \A j \in 1..Len(rf_refined) :
          /\ \A k \in 1..Len(rf_records) :
                /\ rf_refined[j] # rf_records[k]
                /\ RefinedRecord(j).detections # rf_given[k].dict.detections

\* a finished call with sort_desc that kept a record whose detections it
\* filtered and reordered
C10_Witness ==
    /\ rf_pc = "done" /\ rf_args.sort_desc
    /\ \E j \in 1..Len(rf_refined) :
          /\ Len(RefinedDetections(j)) = 2
          /\ RefinedDetections(j)
               # rf_given[KeptAsSpecified[j]].detections

\* C12: every output record carries a meta block: num_detections counts the
\* detections of the output record, num_original those of the corresponding
\* input record, min_conf_applied is the threshold; class_filter is present
\* exactly when the id-set or the name-set is non-empty, and is then the
\* sorted union of the stringified ids and the names.
C12_MetaBlock ==
    \A j \in 1..Len(rf_refined) :
        LET meta == RefinedRecord(j).meta
            given == rf_given[RefinedRecord(j).image]
            filter == meta.class_filter
        IN /\ meta.present
           /\ meta.num_detections = Len(RefinedDetections(j))
           /\ meta.num_original = Len(given.detections)
           /\ meta.min_conf_applied = rf_args.min_conf
           /\ meta.has_class_filter
                <=> (rf_args.allowed_ids # {} \/ rf_args.allowed_names # {})
           /\ meta.has_class_filter =>
                /\ {filter[n] : n \in 1..Len(filter)}
                     = {Str(n) : n \in rf_args.allowed_ids} \cup rf_args.allowed_names
                /\ \A a, b \in 1..Len(filter) :
                      a < b => StrRank(filter[a]) < StrRank(filter[b])

\* a finished call whose filter has ids and a name, with an output record
\* that lost a detection
C12_Witness ==
    /\ rf_pc = "done"
    /\ rf_args.allowed_ids = {0, 1} /\ rf_args.allowed_names # {}
    /\ \E j \in 1..Len(rf_refined) :
          /\ RefinedRecord(j).meta.num_detections = 1
          /\ RefinedRecord(j).meta.num_original = 2
          /\ Len(RefinedRecord(j).meta.class_filter) = 3

\* the detections of a list whose confidence (absent as 0.0) is c, in order
WithConf(dets, c) == SelectSeq(dets, LAMBDA d : ConfOrZero(d) = c)

RECURSIVE IsSubsequence(_, _)
IsSubsequence(part, whole) ==
    IF part = <<>> THEN TRUE
    ELSE IF whole = <<>> THEN FALSE
    ELSE IF Head(part) = Head(whole) THEN IsSubsequence(Tail(part), Tail(whole))
    ELSE IsSubsequence(part, Tail(whole))

\* C15: with sort_desc the surviving detections of each record are in
\* non-increasing confidence order (absent as 0.0) and those of equal
\* confidence keep their input order; without it they are a subsequence of
\* the input detections.
C15_SortStableOrOrderKept ==
    \A k \in 1..Len(rf_filtered) :
        LET kept == rf_filtered[k]
            given == rf_given[k].detections
        IN IF rf_args.sort_desc
           THEN /\ \A a, b \in 1..Len(kept) :
                      a < b => ConfOrZero(kept[a]) >= ConfOrZero(kept[b])
                /\ \A d \in DetPool :
                      /\ IsSubsequence(WithConf(kept, ConfOrZero(d)), given)
                      /\ Len(WithConf(kept, ConfOrZero(d)))
                           = Len(SelectSeq(WithConf(given, ConfOrZero(d)),
                                           LAMBDA e : PassesAsSpecified(e, rf_args)))
           ELSE IsSubsequence(kept, given)

\* with sort_desc, two different detections of equal confidence were kept
\* in their input order, and another record was reordered
C15_Witness ==
    /\ rf_args.sort_desc
    /\ \E k \in 1..Len(rf_filtered) :
          /\ Len(rf_filtered[k]) = 2
          /\ rf_filtered[k][1] # rf_filtered[k][2]
          /\ ConfOrZero(rf_filtered[k][1]) = ConfOrZero(rf_filtered[k][2])
          /\ rf_filtered[k] = rf_given[k].detections
    /\ \E k \in 1..Len(rf_filtered) :
          /\ Len(rf_filtered[k]) = 2
          /\ rf_filtered[k][1] = rf_given[k].detections[2]
          /\ ConfOrZero(rf_filtered[k][1]) > ConfOrZero(rf_filtered[k][2])

\* C19: refine_records applied to its own output, with the same arguments,
\* returns the same records with the same detections in the same order; only
\* meta.num_original can differ.
C19_Idempotent ==
    rf_pc = "reapplied" =>
        /\ Len(rf_again) = Len(Returned)
        /\ \A j \in 1..Len(rf_again) :
              [rf_again[j] EXCEPT !.meta.num_original = Returned[j].meta.num_original]
                  = Returned[j]

\* a second application, with sort_desc and a class filter, to an output
\* whose first record had lost a detection and kept two
C19_Witness ==
    /\ rf_pc = "reapplied" /\ rf_args.sort_desc
    /\ rf_args.allowed_ids # {} \/ rf_args.allowed_names # {}
    /\ \E j \in 1..Len(rf_again) :
          rf_again[j].meta.num_original # Returned[j].meta.num_original
    /\ \E j \in 1..Len(rf_again) :
          /\ Len(rf_again[j].detections) = 2
          /\ rf_again[j].detections[1] # rf_again[j].detections[2]

------------------------------------------------------------------------------
(* Claims about the class filter *)

Tokens(raw) == {Strip(raw[n]) : n \in 1..Len(raw)}

\* C18 as stated: every trimmed token of the split joins the id-set when it
\* parses as an integer and otherwise, lower-cased, the name-set; the empty
\* tokens of a trailing or doubled comma or of an empty string included.
C18_EveryTokenJoinsASet ==
    cf_pc = "parsed" =>
        /\ cf_ids = {PyInt(t).val : t \in {u \in Tokens(cf_raw) : PyInt(u).err = ""}}
        /\ cf_names = {Lower(t) : t \in {u \in Tokens(cf_raw) : PyInt(u).err # ""}}

\* C18 as amended: the same for the tokens that are not empty after
\* trimming; an empty token joins neither set.
C18_NonEmptyTokensJoinASet ==
    cf_pc = "parsed" =>
        /\ cf_ids = {PyInt(t).val : t \in {u \in Tokens(cf_raw) : PyInt(u).err = ""}}
        /\ cf_names = {Lower(t) : t \in {u \in Tokens(cf_raw) :
                                            u # "" /\ PyInt(u).err # ""}}
        /\ "" \notin cf_names

\* a parsed string with an id, a name in upper case and an empty piece
C18_Witness ==
    /\ cf_pc = "parsed"
    /\ Len(cf_raw) = 3 /\ cf_raw[3] = ""
    /\ cf_ids = {1} /\ cf_names = {"dog"}

------------------------------------------------------------------------------
(* Claims about the summariser *)

RECURSIVE SumOfCounts(_)
SumOfCounts(rows) ==
    IF rows = <<>> THEN 0 ELSE Head(rows).num_detections + SumOfCounts(Tail(rows))
RECURSIVE CountDetections(_)
CountDetections(records) ==
    IF records = <<>> THEN 0
    ELSE Len(Head(records).detections) + CountDetections(Tail(records))

\* C5: the num_detections of the summary rows add up to the number of
\* detections in the input records, those without class_id or class_name
\* included.
C5_CountsAddUp ==
    sm_pc = "done" => SumOfCounts(sm_summary) = CountDetections(sm_records)

\* a summary of several groups over an input with a detection that has
\* neither class_id nor class_name
C5_Witness ==
    /\ sm_pc = "done" /\ Len(sm_summary) >= 2 /\ CountDetections(sm_records) >= 3
    /\ \E n \in 1..Len(sm_df) : ~IsNumber(sm_df[n].class_id)

\* the value of a summary row in the requested column, as a fraction
ColumnFraction(row, by) ==
    CASE by = "num_detections" -> <<row.num_detections, 1>>
      [] by = "mean_confidence" -> <<row.mean_confidence.total, row.mean_confidence.count>>
      [] OTHER -> <<row.max_confidence.v, 1>>
AtLeast(a, b, by) ==
    ColumnFraction(a, by)[1] * ColumnFraction(b, by)[2]
        >= ColumnFraction(b, by)[1] * ColumnFraction(a, by)[2]
Tied(a, b, by) == AtLeast(a, b, by) /\ AtLeast(b, a, by)

\* the first row of the data frame that belongs to the group of a summary row
FirstSeen(row) ==
    CHOOSE n \in 1..Len(sm_df) :
        /\ group_key(sm_df[n]).class_display = row.class_display
        /\ group_key(sm_df[n]).class_id = row.class_id
        /\ \A m \in 1..(n - 1) : group_key(sm_df[m]) # group_key(sm_df[n])

InputDetections == Flatten([r \in 1..Len(sm_records) |-> sm_records[r].detections])
DisplayAsSpecified(d) ==
    IF d.class_name # NullName THEN {d.class_name}
    ELSE IF d.class_id = None THEN {"class_None", "class_nan"}
    ELSE IF d.class_id.v = 0 THEN {"class_0"} ELSE {"class_1"}
SameClassId(column, class_id) ==
    IF class_id = None THEN ~IsNumber(column)
    ELSE IsNumber(column) /\ column.v = class_id.v
RowOf(row, d) ==
    row.class_display \in DisplayAsSpecified(d) /\ SameClassId(row.class_id, d.class_id)
MembersOf(row) == SelectSeq(InputDetections, LAMBDA d : RowOf(row, d))
RECURSIVE SumConf(_)
SumConf(dets) == IF dets = <<>> THEN 0 ELSE ConfOrZero(Head(dets)) + SumConf(Tail(dets))

\* C17: the summary has exactly one row per distinct pair (class_display,
\* class_id) of the input, class_display being the class name if present and
\* "class_{id}" otherwise; detections without class_id form their own group;
\* each row holds the count, mean and maximum of the confidences (absent as
\* 0.0) of its detections.
C17_OneRowPerClass ==
    sm_pc = "done" =>
        /\ \A n \in 1..Len(InputDetections) :
              Cardinality({g \in 1..Len(sm_summary) :
                              RowOf(sm_summary[g], InputDetections[n])}) = 1
        /\ \A g \in 1..Len(sm_summary) :
              LET row == sm_summary[g]
                  members == MembersOf(row)
              IN /\ members # <<>>
                 /\ row.num_detections = Len(members)
                 /\ row.mean_confidence.total * Len(members)
                      = SumConf(members) * row.mean_confidence.count
                 /\ \A m \in 1..Len(members) :
                       ConfOrZero(members[m]) <= row.max_confidence.v
                 /\ \E m \in 1..Len(members) :
                       ConfOrZero(members[m]) = row.max_confidence.v

==============================================================================
